---- MODULE Spec2Model ----
(***************************************************************************)
(* Model of the two watermark-compacting ledgers of colocatron:            *)
(*   Presence     (src/project/presence.py)                                *)
(*   TaskHistory  (src/project/task_history.py)                            *)
(* and of the week utility they are bucketed with:                         *)
(*   Week         (src/project/utils.py)                                   *)
(* The constructors of Task (src/project/task.py) are modelled as well.    *)
(* and of the per-occupant schedule that owns one Presence and keeps, per  *)
(* chore, the last day the chore was done (OccupantSchedule, whose code is  *)
(* not in src/project: it is modelled from sections 3 and 4.3 of spec.md).  *)
(* A date is its proleptic Gregorian ordinal (date.toordinal()).  Every    *)
(* public method is one action, enabled when the caller is idle; the       *)
(* variable `call` then holds the method, its arguments, the exception it  *)
(* raised ("ok" when none) and the value it returned, until the caller     *)
(* takes the result (Return) and is idle again.                            *)
(***************************************************************************)
EXTENDS Integers, Sequences, FiniteSets, TLC

VARIABLES
    absences,                \* Presence.__absences
    absences_begin_on,       \* Presence.__absences_begin_on (the watermark)
    presences_before_begin,  \* Presence.__presences_before_begin
    ever_done,               \* TaskHistory.__ever_done
    begin_on,                \* TaskHistory.__begin_on
    n_until_begin,           \* TaskHistory.__n_until_begin
    load_until_begin,        \* TaskHistory.__load_until_begin
    last_time,               \* TaskHistory.__last_time
    dates,                   \* TaskHistory.__dates (date -> load)
    onboarding_date,         \* OccupantSchedule.onboarding_date
    tasks,                   \* OccupantSchedule.tasks (chore -> record)
    call                     \* the last method call and its outcome

presVars == <<absences, absences_begin_on, presences_before_begin>>
taskVars == <<ever_done, begin_on, n_until_begin, load_until_begin, last_time, dates>>
schedVars == <<onboarding_date, tasks>>
vars == <<absences, absences_begin_on, presences_before_begin,
          ever_done, begin_on, n_until_begin, load_until_begin, last_time, dates,
          onboarding_date, tasks, call>>

----------------------------------------------------------------------------
(* Bounds of the model *)

\* first ordinal of the window of days the callers use
FirstDay == 10
\* number of consecutive days in the window
NumDays == 3
\* longest collection passed as a period
MaxLen == 2
\* largest absolute value kept in Presence's aggregate counter
MaxCount == 3
\* number of consecutive days the callers of TaskHistory use
NumTaskDays == 2
\* largest absolute value kept in TaskHistory's aggregate counters
MaxDone == 1

\* first ordinal of the window of days given to Week (2020-12-01)
WeekFirstDay == 737760
\* number of consecutive days in that window
NumWeekDays == 120

\* number of consecutive weeks the callers of OccupantSchedule use
NumSchedWeeks == 2

\* largest weight, and largest each_n_days, given to the Task constructors
MaxWeight == 4
MaxEachDays == 3

(* Program constants *)

\* timedelta(days=1)
ONE_DAY == 1
\* date(year=1, month=1, day=1).toordinal()
DateMin == 1
\* date(year=9999, month=12, day=31).toordinal()
DateMax == 3652059

\* a value that is neither a date nor an iterable (an int, say)
NonDate == -1
\* Python's None for the Optional[date] parameters
None == 0

Window == FirstDay .. (FirstDay + NumDays - 1)
\* the dates a caller passes
Days == Window \cup {DateMax}
\* the elements a caller may put in a period
Elems == Days \cup {NonDate}
\* the re-iterable collections (lists, tuples) a caller passes
Periods == UNION {[1..n -> Elems] : n \in 0..MaxLen}
\* the values of pres_nb a caller passes
Counts == -1 .. 2

isinstance_date(x) == x # NonDate

\* a load that is not a float instance (the int 1, say)
NonFloat == -1

RECURSIVE Gcd(_, _)
Gcd(a, b) == IF b = 0 THEN a ELSE Gcd(b, a % b)
RECURSIVE LcmUpTo(_)
LcmUpTo(n) == IF n <= 1 THEN 1 ELSE LET l == LcmUpTo(n - 1) IN (l * n) \div Gcd(l, n)

\* Loads are floats; the model counts them in units of 1.0 / LoadScale, so
\* that `load / length` is exact for every length up to MaxLen.
LoadScale == LcmUpTo(MaxLen)
\* the float loads a caller passes: 0.0 and 1.0
Loads == {0, LoadScale}

TaskWindow == FirstDay .. (FirstDay + NumTaskDays - 1)
\* the dates a caller of TaskHistory passes
TaskDays == TaskWindow \cup {DateMax}
\* the elements and collections a caller of TaskHistory passes as a period
TaskElems == TaskWindow \cup {NonDate}
TaskPeriods == UNION {[1..n -> TaskElems] : n \in 0..MaxLen}
\* the values of n_days a caller passes
TaskCounts == -1 .. 1

\* the days a caller of Week.week_of_day passes: a window that crosses a
\* new year, a day of year 1, the last Sunday before date.max, date.max, and
\* a value that is not a date
WeekWindow == WeekFirstDay .. (WeekFirstDay + NumWeekDays - 1)
WeekInputs == WeekWindow \cup {FirstDay, DateMax - 5, DateMax, NonDate}

Range(s) == {s[i] : i \in DOMAIN s}

----------------------------------------------------------------------------
(* The call record *)

\* the caller is idle; prev names the call it has just taken the result of,
\* when that call was an accepted compaction
NoCall ==
    [op |-> "idle", single |-> FALSE, period |-> <<>>, until |-> None,
     nb |-> 0, start |-> None, load |-> 0, ltb |-> None,
     chore |-> "", week |-> None, min_prop |-> 0,
     outcome |-> "ok", retn |-> 0, retb |-> FALSE, prev |-> ""]

Idle == call.op = "idle"

\* a call of a method taking a period (a single date or a collection)
PeriodCall(name, single, period, outcome, retb) ==
    [NoCall EXCEPT !.op = name, !.single = single, !.period = period,
                   !.outcome = outcome, !.retb = retb]

----------------------------------------------------------------------------
(* Presence *)

\* ask_or_set_absence_check without the comparison to the watermark
ask_or_set_absence_check_TypeOnly(day, begin) ==
    IF ~isinstance_date(day) THEN "TypeError" ELSE "ok"

\* the exception ask_or_set_absence_check raises for day, "ok" when none
ask_or_set_absence_check(day, begin) ==
    IF ~isinstance_date(day) THEN "TypeError"
    ELSE IF day < begin THEN "BeforeAbsenceBeginError"
    ELSE "ok"

\* `for day in period: self.ask_or_set_absence_check(day)`: the first exception
RECURSIVE CheckEach(_, _)
CheckEach(period, begin) ==
    IF period = <<>> THEN "ok"
    ELSE LET r == ask_or_set_absence_check(Head(period), begin)
         IN IF r # "ok" THEN r ELSE CheckEach(Tail(period), begin)

\* the days of a period that precede its first invalid element
RECURSIVE ValidPrefix(_, _)
ValidPrefix(period, begin) ==
    IF period = <<>> \/ ask_or_set_absence_check(Head(period), begin) # "ok" THEN {}
    ELSE {Head(period)} \cup ValidPrefix(Tail(period), begin)

\* AddAbsenceBatch inserting each day as soon as it has been checked
AddAbsenceBatch_Eager(abs, period, begin) == abs \cup ValidPrefix(period, begin)

\* the absence set add_absence leaves for a collection: validate all, then update
AddAbsenceBatch(abs, period, begin) ==
    IF CheckEach(period, begin) = "ok" THEN abs \cup Range(period) ELSE abs

\* the absence set rm_absence leaves for a collection: the buffer is
\* subtracted only after the loop has checked every day
RmAbsenceBatch(abs, period, begin) ==
    IF CheckEach(period, begin) = "ok" THEN abs \ Range(period) ELSE abs

add_absence(single, period) ==
    /\ Idle
    /\ LET r == IF single
                THEN (IF isinstance_date(period[1])
                      THEN ask_or_set_absence_check(period[1], absences_begin_on)
                      ELSE "TypeError")
                ELSE CheckEach(period, absences_begin_on)
       IN /\ absences' = IF single
                         THEN (IF r = "ok" THEN absences \cup {period[1]} ELSE absences)
                         ELSE AddAbsenceBatch(absences, period, absences_begin_on)
          /\ call' = PeriodCall("add_absence", single, period, r, FALSE)
    /\ UNCHANGED <<absences_begin_on, presences_before_begin, taskVars, schedVars>>

\* rm_absence whose single-date branch leaves the absence in the set
rm_absence_NoDiscard(single, period) ==
    /\ Idle
    /\ LET r == IF single
                THEN (IF isinstance_date(period[1])
                      THEN ask_or_set_absence_check(period[1], absences_begin_on)
                      ELSE "TypeError")
                ELSE CheckEach(period, absences_begin_on)
       IN /\ absences' = IF single
                         THEN absences
                         ELSE RmAbsenceBatch(absences, period, absences_begin_on)
          /\ call' = PeriodCall("rm_absence", single, period, r, FALSE)
    /\ UNCHANGED <<absences_begin_on, presences_before_begin, taskVars, schedVars>>

\* rm_absence using set.remove, which raises KeyError for a day not in the set
rm_absence_Remove(single, period) ==
    /\ Idle
    /\ LET r == IF single
                THEN (IF isinstance_date(period[1])
                      THEN ask_or_set_absence_check(period[1], absences_begin_on)
                      ELSE "TypeError")
                ELSE CheckEach(period, absences_begin_on)
           k == IF r = "ok" /\ \E i \in DOMAIN period : period[i] \notin absences
                THEN "KeyError" ELSE r
       IN /\ absences' = IF single
                         THEN (IF k = "ok" THEN absences \ {period[1]} ELSE absences)
                         ELSE (IF k = "ok" THEN absences \ Range(period) ELSE absences)
          /\ call' = PeriodCall("rm_absence", single, period, k, FALSE)
    /\ UNCHANGED <<absences_begin_on, presences_before_begin, taskVars, schedVars>>

rm_absence(single, period) ==
    /\ Idle
    /\ LET r == IF single
                THEN (IF isinstance_date(period[1])
                      THEN ask_or_set_absence_check(period[1], absences_begin_on)
                      ELSE "TypeError")
                ELSE CheckEach(period, absences_begin_on)
       IN /\ absences' = IF single
                         THEN (IF r = "ok" THEN absences \ {period[1]} ELSE absences)
                         ELSE RmAbsenceBatch(absences, period, absences_begin_on)
          /\ call' = PeriodCall("rm_absence", single, period, r, FALSE)
    /\ UNCHANGED <<absences_begin_on, presences_before_begin, taskVars, schedVars>>

\* the value on_period returns when no check raises
OnPeriodValue(abs, period) == \A i \in DOMAIN period : period[i] \notin abs

on_period(single, period) ==
    /\ Idle
    /\ LET r == IF single
                THEN (IF isinstance_date(period[1])
                      THEN ask_or_set_absence_check(period[1], absences_begin_on)
                      ELSE "TypeError")
                ELSE CheckEach(period, absences_begin_on)
       IN call' = PeriodCall("on_period", single, period, r,
                             IF r = "ok" THEN OnPeriodValue(absences, period) ELSE FALSE)
    /\ UNCHANGED <<presVars, taskVars, schedVars>>

\* NotOnPeriodValue satisfied by one absent day
NotOnPeriodValue_Any(abs, period) == \E i \in DOMAIN period : period[i] \in abs

\* the value not_on_period returns when no check raises
NotOnPeriodValue(abs, period) == \A i \in DOMAIN period : period[i] \in abs

not_on_period(single, period) ==
    /\ Idle
    /\ Idle
    /\ LET r == IF single
                THEN (IF isinstance_date(period[1])
                      THEN ask_or_set_absence_check(period[1], absences_begin_on)
                      ELSE "TypeError")
                ELSE CheckEach(period, absences_begin_on)
       IN call' = PeriodCall("not_on_period", single, period, r,
                             IF r = "ok" THEN NotOnPeriodValue(absences, period) ELSE FALSE)
    /\ UNCHANGED <<presVars, taskVars, schedVars>>

\* PresenceDaysNb without the days counted before the watermark
PresenceDaysNb_NoBefore(abs, begin, before, day) ==
    (day - begin) + 1 - Cardinality({a \in abs : a <= day})

\* PresenceDaysNb leaving out an absence on the day itself
PresenceDaysNb_Earlier(abs, begin, before, day) ==
    (day - begin) + 1 - Cardinality({a \in abs : a < day}) + before

\* the value Presence.days_nb_until returns when the check passes
PresenceDaysNb(abs, begin, before, day) ==
    LET nb_days_after_begin == (day - begin) + 1
        nb_abs == Cardinality({a \in abs : a <= day})
    IN nb_days_after_begin - nb_abs + before

presence_days_nb_until(day) ==
    /\ Idle
    /\ LET r == ask_or_set_absence_check(day, absences_begin_on)
       IN call' = [PeriodCall("days_nb_until", TRUE, <<day>>, r, FALSE) EXCEPT
                     !.retn = IF r = "ok"
                              THEN PresenceDaysNb(absences, absences_begin_on,
                                                  presences_before_begin, day)
                              ELSE 0]
    /\ UNCHANGED <<presVars, taskVars, schedVars>>

\* SetPresenceCheck tolerating a start one day after the watermark
SetPresenceCheck_GapLoose(until, start, begin, before) ==
    IF until < begin THEN "ValueError"
    ELSE IF start # None /\ start > until THEN "ValueError"
    ELSE IF start # None /\ start > begin + ONE_DAY THEN "AbsenceTrackingAfterBeginError"
    ELSE IF start # None /\ start < begin /\ before # 0 THEN "ValueError"
    ELSE "ok"

\* SetPresenceCheck with the floor of until one day before the watermark
SetPresenceCheck_FloorMinusOne(until, start, begin, before) ==
    IF until < begin - ONE_DAY THEN "ValueError"
    ELSE IF start # None /\ start > until THEN "ValueError"
    ELSE IF start # None /\ start > begin THEN "AbsenceTrackingAfterBeginError"
    ELSE IF start # None /\ start < begin /\ before # 0 THEN "ValueError"
    ELSE "ok"

\* SetPresenceCheck without the floor of until at the watermark
SetPresenceCheck_NoFloor(until, start, begin, before) ==
    IF start # None /\ start > until THEN "ValueError"
    ELSE IF start # None /\ start > begin THEN "AbsenceTrackingAfterBeginError"
    ELSE IF start # None /\ start < begin /\ before # 0 THEN "ValueError"
    ELSE "ok"

\* the exception the argument checks of set_presence_nb_between raise
SetPresenceCheck(until, start, begin, before) ==
    IF until < begin THEN "ValueError"
    ELSE IF start # None /\ start > until THEN "ValueError"
    ELSE IF start # None /\ start > begin THEN "AbsenceTrackingAfterBeginError"
    ELSE IF start # None /\ start < begin /\ before # 0 THEN "ValueError"
    ELSE "ok"

\* NewPresencesBefore always replacing the count
NewPresencesBefore_Replace(before, pres_nb, start, begin) == pres_nb

\* NewPresencesBefore always adding to the count
NewPresencesBefore_Add(before, pres_nb, start, begin) == before + pres_nb

\* the count set_presence_nb_between stores once the checks have passed
NewPresencesBefore(before, pres_nb, start, begin) ==
    IF start = None \/ start < begin THEN pres_nb ELSE before + pres_nb

\* KeptAbsences with the filter `day < until`
KeptAbsences_Strict(abs, until) == abs \ {day \in abs : day < until}

\* the absences set_presence_nb_between keeps
KeptAbsences(abs, until) == abs \ {day \in abs : day <= until}

set_presence_nb_between(until, pres_nb, start) ==
    LET chk == SetPresenceCheck(until, start, absences_begin_on, presences_before_begin)
        nb  == NewPresencesBefore(presences_before_begin, pres_nb, start, absences_begin_on)
        \* `until + ONE_DAY` raises OverflowError past date.max, after the
        \* count has been assigned
        r   == IF chk # "ok" THEN chk
               ELSE IF until + ONE_DAY > DateMax THEN "OverflowError"
               ELSE "ok"
    IN /\ Idle
       /\ chk = "ok" => (nb >= -MaxCount /\ nb <= MaxCount)
       /\ presences_before_begin' = IF chk = "ok" THEN nb ELSE presences_before_begin
       /\ absences_begin_on' = IF r = "ok" THEN until + ONE_DAY ELSE absences_begin_on
       /\ absences' = IF r = "ok" THEN KeptAbsences(absences, until) ELSE absences
       /\ call' = [NoCall EXCEPT !.op = "set_presence_nb_between", !.until = until,
                                 !.nb = pres_nb, !.start = start, !.outcome = r]
       /\ UNCHANGED <<taskVars, schedVars>>

----------------------------------------------------------------------------
(* TaskHistory *)

Max(S) == CHOOSE x \in S : \A y \in S : y <= x

\* `d[k] = v` in the place of dict.setdefault(k, v)
SetDefault_Overwrite(d, k, v) ==
    [x \in DOMAIN d \cup {k} |-> IF x = k THEN v ELSE d[x]]

\* dict.setdefault(k, v)
SetDefault(d, k, v) ==
    IF k \in DOMAIN d THEN d
    ELSE [x \in DOMAIN d \cup {k} |-> IF x = k THEN v ELSE d[x]]

\* the dict without the keys of K
Without(d, K) == [x \in DOMAIN d \ K |-> d[x]]

\* set_date_check without the comparison to begin_on
set_date_check_TypeOnly(day, begin) ==
    IF ~isinstance_date(day) THEN "TypeError" ELSE "ok"

\* the exception set_date_check raises for day, "ok" when none
set_date_check(day, begin) ==
    IF ~isinstance_date(day) THEN "TypeError"
    ELSE IF day < begin THEN "BeforeBeginError"
    ELSE "ok"

\* the exception add_date_check raises, "ok" when none
add_date_check(day, load, begin, dts) ==
    LET r == set_date_check(day, begin)
    IN IF r # "ok" THEN r
       ELSE IF day \in DOMAIN dts /\ load # dts[day] THEN "UpdateLoadError"
       ELSE "ok"

\* `for day in period: self.add_date_check(day=day, load=load)`
RECURSIVE AddCheckEach(_, _, _, _)
AddCheckEach(period, load, begin, dts) ==
    IF period = <<>> THEN "ok"
    ELSE LET r == add_date_check(Head(period), load, begin, dts)
         IN IF r # "ok" THEN r ELSE AddCheckEach(Tail(period), load, begin, dts)

\* `for day in period: self.__dates.setdefault(day, single_day_load)`
RECURSIVE SetDefaultEach(_, _, _)
SetDefaultEach(dts, period, single_day_load) ==
    IF period = <<>> THEN dts
    ELSE SetDefaultEach(SetDefault(dts, Head(period), single_day_load),
                        Tail(period), single_day_load)

\* add_date taking the new day as last_time whatever the last one was
AddLastTime_Newest(done, last, day) == day

\* the last_time add_date keeps: the new day when never done or later
AddLastTime(done, last, day) == IF ~done \/ day > last THEN day ELSE last

TaskCall(name, single, period, load, outcome) ==
    [NoCall EXCEPT !.op = name, !.single = single, !.period = period,
                   !.load = load, !.outcome = outcome]

add_date(single, period, load) ==
    LET r == IF load = NonFloat THEN "TypeError"
             ELSE IF single
             THEN (IF isinstance_date(period[1])
                   THEN add_date_check(period[1], load, begin_on, dates)
                   ELSE "TypeError")
             ELSE AddCheckEach(period, load, begin_on, dates)
        length == Len(period)
        applies == r = "ok" /\ length > 0
    IN /\ Idle
       /\ ever_done' = IF applies THEN TRUE ELSE ever_done
       /\ last_time' = IF applies
                       THEN AddLastTime(ever_done, last_time, Max(Range(period)))
                       ELSE last_time
       /\ dates' = IF ~applies THEN dates
                   ELSE IF single THEN SetDefault(dates, period[1], load)
                   ELSE SetDefaultEach(dates, period, load \div length)
       /\ call' = TaskCall("add_date", single, period, load, r)
       /\ UNCHANGED <<begin_on, n_until_begin, load_until_begin, presVars, schedVars>>

read_last_time ==
    /\ Idle
    /\ call' = [NoCall EXCEPT !.op = "last_time",
                  !.outcome = IF ~ever_done THEN "NeverDoneError" ELSE "ok",
                  !.retn = IF ~ever_done THEN 0 ELSE last_time]
    /\ UNCHANGED <<presVars, taskVars, schedVars>>

read_ever_done ==
    /\ Idle
    /\ call' = [NoCall EXCEPT !.op = "ever_done", !.retb = ever_done]
    /\ UNCHANGED <<presVars, taskVars, schedVars>>

\* the value TaskHistory.days_nb_until returns
TaskDaysNb(dts, n_before, day) ==
    Cardinality({d \in DOMAIN dts : d <= day}) + n_before

task_days_nb_until(day) ==
    /\ Idle
    /\ call' = [NoCall EXCEPT !.op = "task_days_nb_until", !.single = TRUE,
                  !.period = <<day>>,
                  !.retn = TaskDaysNb(dates, n_until_begin, day)]
    /\ UNCHANGED <<presVars, taskVars, schedVars>>

RECURSIVE SumLoads(_, _)
SumLoads(dts, S) ==
    IF S = {} THEN 0
    ELSE LET d == CHOOSE x \in S : TRUE IN dts[d] + SumLoads(dts, S \ {d})

\* the value load_until returns
TaskLoad(dts, load_before, day) ==
    SumLoads(dts, {d \in DOMAIN dts : d <= day}) + load_before

load_until(day) ==
    /\ Idle
    /\ call' = [NoCall EXCEPT !.op = "load_until", !.single = TRUE,
                  !.period = <<day>>,
                  !.retn = TaskLoad(dates, load_until_begin, day)]
    /\ UNCHANGED <<presVars, taskVars, schedVars>>

\* rm_date_check without the refusal of an unsafe removal
rm_date_check_AnyRemoval(day, begin, last, n_before, dts) ==
    set_date_check(day, begin)

\* the exception rm_date_check raises for a single day, "ok" when none
rm_date_check(day, begin, last, n_before, dts) ==
    LET r == set_date_check(day, begin)
    IN IF r # "ok" THEN r
       ELSE IF day = last /\ n_before > 0 /\ (\A d \in DOMAIN dts : d = last)
            THEN "ValueError"
       ELSE "ok"

\* `for day in period: self.set_date_check(day)`
RECURSIVE SetCheckEach(_, _)
SetCheckEach(period, begin) ==
    IF period = <<>> THEN "ok"
    ELSE LET r == set_date_check(Head(period), begin)
         IN IF r # "ok" THEN r ELSE SetCheckEach(Tail(period), begin)

\* the exception the collection branch of rm_date raises before deleting
RmDateBatchCheck(period, begin, last, n_before, dts) ==
    LET r == SetCheckEach(period, begin)
    IN IF r # "ok" THEN r
       ELSE IF last \in Range(period) /\ n_before > 0
               /\ (\A d \in DOMAIN dts : d \in Range(period))
            THEN "ValueError"
       ELSE "ok"

\* the orders in which `for day in days_to_delete` may visit the set: the
\* iteration order of a set of dates follows their (randomized) hashes
Orders(S) ==
    {o \in [1..Cardinality(S) -> S] : \A i, j \in DOMAIN o : i # j => o[i] # o[j]}

\* `for day in days_to_delete: del self.__dates[day]` in the given order:
\* the first missing key raises KeyError and leaves the earlier deletions
RECURSIVE DelEach(_, _)
DelEach(dts, order) ==
    IF order = <<>> THEN [dates |-> dts, outcome |-> "ok"]
    ELSE IF Head(order) \notin DOMAIN dts THEN [dates |-> dts, outcome |-> "KeyError"]
    ELSE DelEach(Without(dts, {Head(order)}), Tail(order))

\* ever_done and last_time once a removal has taken last_time away
AfterRemoval(dts) ==
    IF DOMAIN dts # {} THEN [ever_done |-> TRUE, last_time |-> Max(DOMAIN dts)]
    ELSE [ever_done |-> FALSE, last_time |-> DateMax]

rm_date_single(day) ==
    LET chk == IF isinstance_date(day)
               THEN rm_date_check(day, begin_on, last_time, n_until_begin, dates)
               ELSE "ok"   \* neither a date nor an iterable: no branch is taken
        r == IF chk # "ok" THEN chk
             ELSE IF isinstance_date(day) /\ day \notin DOMAIN dates THEN "KeyError"
             ELSE "ok"
        deletes == r = "ok" /\ isinstance_date(day)
        left == Without(dates, {day})
    IN /\ Idle
       /\ dates' = IF deletes THEN left ELSE dates
       /\ ever_done' = IF deletes /\ day = last_time
                       THEN (IF DOMAIN left # {} THEN ever_done
                             ELSE AfterRemoval(left).ever_done)
                       ELSE ever_done
       /\ last_time' = IF deletes /\ day = last_time
                       THEN AfterRemoval(left).last_time ELSE last_time
       /\ call' = TaskCall("rm_date", TRUE, <<day>>, 0, r)
       /\ UNCHANGED <<begin_on, n_until_begin, load_until_begin, presVars, schedVars>>

rm_date_batch(period) ==
    LET chk == RmDateBatchCheck(period, begin_on, last_time, n_until_begin, dates)
    IN /\ Idle
       /\ \E order \in Orders(Range(period)) :
            LET res == IF chk = "ok" THEN DelEach(dates, order)
                       ELSE [dates |-> dates, outcome |-> chk]
                updates == res.outcome = "ok" /\ last_time \in Range(period)
            IN /\ dates' = res.dates
               /\ ever_done' = IF updates
                               THEN (IF DOMAIN res.dates # {} THEN ever_done
                                     ELSE AfterRemoval(res.dates).ever_done)
                               ELSE ever_done
               /\ last_time' = IF updates
                               THEN AfterRemoval(res.dates).last_time ELSE last_time
               /\ call' = TaskCall("rm_date", FALSE, period, 0, res.outcome)
       /\ UNCHANGED <<begin_on, n_until_begin, load_until_begin, presVars, schedVars>>

\* set_situation_check accepting a count on a never-done history without a
\* last time
set_situation_check_NoEvidence(until, n_days, ltb, start, begin, done, n_before, load_before) ==
    IF until < begin THEN "ValueError"
    ELSE IF ltb # None /\ ltb > until THEN "ValueError"
    ELSE IF ltb # None /\ n_days = 0 THEN "ValueError"
    ELSE IF start # None /\ start > until THEN "ValueError"
    ELSE IF start # None /\ start > begin THEN "ValueError"
    ELSE IF start # None /\ start < begin /\ n_before # 0 /\ load_before # 0
         THEN "BeforeBeginError"
    ELSE "ok"

\* the exception set_situation_check raises, "ok" when none
set_situation_check(until, n_days, ltb, start, begin, done, n_before, load_before) ==
    IF until < begin THEN "ValueError"
    ELSE IF ltb = None /\ n_days > 0 /\ ~done THEN "ValueError"
    ELSE IF ltb # None /\ ltb > until THEN "ValueError"
    ELSE IF ltb # None /\ n_days = 0 THEN "ValueError"
    ELSE IF start # None /\ start > until THEN "ValueError"
    ELSE IF start # None /\ start > begin THEN "ValueError"
    ELSE IF start # None /\ start < begin /\ n_before # 0 /\ load_before # 0
         THEN "BeforeBeginError"
    ELSE "ok"

\* ever_done and last_time after the `last_time_between_start_and_until` step
SituationLastTime(done, last, n_days, ltb) ==
    IF ltb = None THEN [ever_done |-> done, last_time |-> last]
    ELSE IF done
         THEN [ever_done |-> TRUE, last_time |-> IF ltb > last THEN ltb ELSE last]
    ELSE IF n_days > 0 THEN [ever_done |-> TRUE, last_time |-> ltb]
    ELSE [ever_done |-> done, last_time |-> last]

set_situation_on_period(until, n_days, load, ltb, start) ==
    LET chk == set_situation_check(until, n_days, ltb, start, begin_on, ever_done,
                                   n_until_begin, load_until_begin)
        n   == IF start = None THEN n_days ELSE n_until_begin + n_days
        l   == IF start = None THEN load ELSE load_until_begin + load
        lt  == SituationLastTime(ever_done, last_time, n_days, ltb)
        \* `until + ONE_DAY` raises OverflowError past date.max, after the
        \* aggregates, ever_done and last_time have been assigned
        r   == IF chk # "ok" THEN chk
               ELSE IF until + ONE_DAY > DateMax THEN "OverflowError"
               ELSE "ok"
        left == Without(dates, {day \in DOMAIN dates : day <= until})
        reset == n = 0 /\ DOMAIN left = {}
    IN /\ Idle
       /\ chk = "ok" => (n >= -MaxDone /\ n <= MaxDone /\ l <= MaxDone * LoadScale)
       /\ n_until_begin' = IF chk = "ok" THEN n ELSE n_until_begin
       /\ load_until_begin' = IF chk = "ok" THEN l ELSE load_until_begin
       /\ begin_on' = IF r = "ok" THEN until + ONE_DAY ELSE begin_on
       /\ dates' = IF r = "ok" THEN left ELSE dates
       /\ ever_done' = IF chk # "ok" THEN ever_done
                       ELSE IF r = "ok" /\ reset THEN FALSE
                       ELSE lt.ever_done
       /\ last_time' = IF chk # "ok" THEN last_time
                       ELSE IF r = "ok" /\ reset THEN DateMax
                       ELSE lt.last_time
       /\ call' = [NoCall EXCEPT !.op = "set_situation_on_period", !.until = until,
                                 !.nb = n_days, !.load = load, !.ltb = ltb,
                                 !.start = start, !.outcome = r]
       /\ UNCHANGED <<presVars, schedVars>>

\* forward_begin_to is a stub: it raises NotImplementedError
forward_begin_to(day) ==
    /\ Idle
    /\ call' = TaskCall("forward_begin_to", TRUE, <<day>>, 0, "NotImplementedError")
    /\ UNCHANGED <<presVars, taskVars, schedVars>>

----------------------------------------------------------------------------
(* Week *)

\* date.weekday(): Monday is 0, Sunday is 6; ordinal 1 is a Monday
Weekday(day) == (day - 1) % 7

\* the number of days before January 1st of year y
DaysBeforeYear(y) ==
    (y - 1) * 365 + ((y - 1) \div 4) - ((y - 1) \div 100) + ((y - 1) \div 400)

\* date(y, 1, 1).toordinal()
FirstOfYear(y) == DaysBeforeYear(y) + 1

\* day.year
YearOf(day) ==
    CHOOSE y \in (((day - 1) \div 366) + 1) .. (((day - 1) \div 365) + 1) :
        DaysBeforeYear(y) < day /\ day <= DaysBeforeYear(y + 1)

\* int(day.strftime("%W")): the week of the year, weeks starting on Monday;
\* the days before the first Monday of the year are in week 0
strftime_W(day) ==
    LET tm_yday == day - FirstOfYear(YearOf(day))
    IN (tm_yday + 7 - Weekday(day)) \div 7

\* the day of the year strptime computes from "%W" and a weekday
calc_julian_from_W(year, week_of_year, day_of_week) ==
    LET first_weekday == Weekday(FirstOfYear(year))
        week_0_length == (7 - first_weekday) % 7
    IN IF week_of_year = 0 THEN 1 + day_of_week - first_weekday
       ELSE 1 + (week_0_length + 7 * (week_of_year - 1)) + day_of_week

\* the weekday strptime reads from "%w": 0 is Sunday
strptime_w(w) == IF w = 0 THEN 6 ELSE w - 1

\* Week(year, week_nb): the date parsed from f"{year}-{week_nb}-0" with
\* "%Y-%W-%w" and stored as __monday, or the exception raised: "%Y" wants
\* four digits, "%W" a number from 0 to 53, and the parsed date must not
\* pass date.max
Week_init(year, week_nb) ==
    LET julian == calc_julian_from_W(year, week_nb, strptime_w(0))
        parsed == (julian - 1) + FirstOfYear(year)
    IN IF year < 1000 \/ year > 9999 THEN [outcome |-> "ValueError", monday |-> 0]
       ELSE IF week_nb < 0 \/ week_nb > 53 THEN [outcome |-> "ValueError", monday |-> 0]
       ELSE IF parsed > DateMax THEN [outcome |-> "ValueError", monday |-> 0]
       ELSE [outcome |-> "ok", monday |-> parsed]

\* Week.sunday: `self.__monday + 6 * ONE_DAY` raises OverflowError past
\* date.max
Week_sunday(monday) ==
    IF monday + 6 * ONE_DAY > DateMax THEN [outcome |-> "OverflowError", sunday |-> 0]
    ELSE [outcome |-> "ok", sunday |-> monday + 6 * ONE_DAY]

\* Week.__contains__: `self.__monday <= day <= self.sunday` compares a date
\* (TypeError otherwise) and reads self.sunday only when day is not before
\* the stored date
Week_contains(monday, day) ==
    IF ~isinstance_date(day) THEN [outcome |-> "TypeError", retb |-> FALSE]
    ELSE IF ~(monday <= day) THEN [outcome |-> "ok", retb |-> FALSE]
    ELSE IF Week_sunday(monday).outcome # "ok"
         THEN [outcome |-> Week_sunday(monday).outcome, retb |-> FALSE]
    ELSE [outcome |-> "ok", retb |-> day <= Week_sunday(monday).sunday]

\* Week.__iter__: the seven dates `self.__monday + i * ONE_DAY`, i from 0 to
\* 6, so the stored date and the six days after it; the generator raises
\* OverflowError at the first date past date.max, after the days before it
Week_iter(monday) ==
    [outcome |-> IF monday + 6 * ONE_DAY > DateMax THEN "OverflowError" ELSE "ok",
     days |-> {d \in {monday + i * ONE_DAY : i \in 0..6} : d <= DateMax}]

\* Week.__lt__ with another Week: the stored dates are compared
Week_lt(monday, other_monday) == monday < other_monday

\* Week.week_of_day(day): TypeError for a value that is no date, else
\* Week(day.year, int(day.strftime("%W"))), held by its __monday
Week_week_of_day(day) ==
    IF ~isinstance_date(day) THEN [outcome |-> "TypeError", monday |-> 0]
    ELSE Week_init(YearOf(day), strftime_W(day))

\* a call of Week.week_of_day(day); it returns the Week, held by its __monday
week_of_day(day) ==
    /\ Idle
    /\ LET w == Week_week_of_day(day)
       IN call' = [PeriodCall("week_of_day", TRUE, <<day>>, w.outcome, FALSE)
                     EXCEPT !.retn = w.monday]
    /\ UNCHANGED <<presVars, taskVars, schedVars>>

----------------------------------------------------------------------------
(* Task *)

\* the default None of weight_per_coloc and total_weight
NoWeight == -1
\* the float weights a caller passes: 0.0, 1.0, ...
Weights == 0..MaxWeight
\* the values of min_prop a caller passes, in halves: 0.0, 0.5, 1.0
MinProps == 0..2
EachDays == 1..MaxEachDays

\* the exception weight_fun raises, "ok" when it returns the weight function
weight_fun(proportional, weight_per_coloc, total_weight) ==
    IF proportional
    THEN (IF weight_per_coloc = NoWeight THEN "ValueError"
          ELSE IF total_weight # NoWeight THEN "ValueError"
          ELSE "ok")
    ELSE (IF weight_per_coloc # NoWeight THEN "ValueError"
          ELSE IF total_weight = NoWeight THEN "ValueError"
          ELSE "ok")

\* a call of a Task constructor
FactoryCall(name, weight, min_prop, each_n_days, outcome) ==
    [NoCall EXCEPT !.op = name, !.load = weight, !.min_prop = min_prop,
                   !.nb = each_n_days, !.outcome = outcome]

one_shot_fixed_weight(total_weight, min_prop) ==
    /\ Idle
    /\ call' = FactoryCall("one_shot_fixed_weight", total_weight, min_prop, 0,
                           weight_fun(FALSE, NoWeight, total_weight))
    /\ UNCHANGED <<presVars, taskVars, schedVars>>

one_shot_variable_weight(weight_per_coloc, min_prop) ==
    /\ Idle
    /\ call' = FactoryCall("one_shot_variable_weight", weight_per_coloc, min_prop, 0,
                           weight_fun(TRUE, weight_per_coloc, NoWeight))
    /\ UNCHANGED <<presVars, taskVars, schedVars>>

regular_fixed_weight(total_weight, min_prop, each_n_days) ==
    /\ Idle
    /\ call' = FactoryCall("regular_fixed_weight", total_weight, min_prop, each_n_days,
                           weight_fun(FALSE, NoWeight, total_weight))
    /\ UNCHANGED <<presVars, taskVars, schedVars>>

\* proportional=False is passed together with weight_per_coloc
regular_variable_weight(weight_per_coloc, min_prop, each_n_days) ==
    /\ Idle
    /\ call' = FactoryCall("regular_variable_weight", weight_per_coloc, min_prop,
                           each_n_days, weight_fun(FALSE, weight_per_coloc, NoWeight))
    /\ UNCHANGED <<presVars, taskVars, schedVars>>

----------------------------------------------------------------------------
(* OccupantSchedule, from spec.md sections 3 and 4.3.  It owns the Presence *)
(* above; its weeks are the Week of utils.py, held by the stored __monday:  *)
(* the week of a day is Week.week_of_day(day), the days of a week are those *)
(* Week.__iter__ yields, and weeks are ordered by Week.__lt__.              *)

\* the occupant's onboarding day: the Monday on or before WeekFirstDay
SchedMonday == WeekFirstDay - Weekday(WeekFirstDay)
\* the weeks the callers record chores on: Week.week_of_day of the
\* onboarding day and of the same day of the following weeks; and the week
\* before that of onboarding
SchedWeeks ==
    {Week_week_of_day(SchedMonday + 7 * k).monday : k \in 0..(NumSchedWeeks - 1)}
WeekInputsSched == SchedWeeks \cup {Week_week_of_day(SchedMonday - 7).monday}
\* the periods the callers edit: the onboarding day, the day before it, the
\* last day a week yields, or the seven days a week yields, in order
WeekPeriod(week) == [i \in 1..7 |-> week + (i - 1) * ONE_DAY]
SchedSingles == {<<SchedMonday>>, <<SchedMonday - 1>>}
                   \cup {<<w + 6>> : w \in SchedWeeks}
SchedPeriods == SchedSingles \cup {WeekPeriod(w) : w \in WeekInputsSched}
\* the chores, and the prior last-performed dates given at record creation
Chores == {"dishes", "bins"}
PriorDays == {SchedMonday - 1}

\* on_period(day) of the owned ledger: the exception it raises for a day
\* the ledger does not track, else whether the day is present
IsPresent(abs, begin, day) ==
    LET r == ask_or_set_absence_check(day, begin)
    IN [outcome |-> r, retb |-> r = "ok" /\ OnPeriodValue(abs, <<day>>)]

\* presence_days_with_task_after_onboarding: the days from onboarding on,
\* among those the weeks of the history yield, on which the occupant is
\* present
PresenceDaysWithTask(history, abs, begin, onboarding) ==
    {d \in UNION {Week_iter(w).days : w \in history} :
        d >= onboarding /\ IsPresent(abs, begin, d).retb}

\* a chore record at creation: the snapshot is taken once, the live values
\* start from it
NewRecord(old_last_time) ==
    [task_history |-> {},
     old_last_time |-> old_last_time, old_ever_done |-> old_last_time # None,
     last_time |-> old_last_time, ever_done |-> old_last_time # None]

\* the re-scan of add_absence: the latest present day of a recorded week,
\* else the snapshot
Recompute(rec, abs, begin, onboarding) ==
    LET S == PresenceDaysWithTask(rec.task_history, abs, begin, onboarding)
    IN IF S # {} THEN [rec EXCEPT !.last_time = Max(S), !.ever_done = TRUE]
       ELSE [rec EXCEPT !.last_time = rec.old_last_time,
                        !.ever_done = rec.old_ever_done]

\* the monotonic update: last_time is raised to day, never lowered
Advance(rec, day) ==
    IF ~rec.ever_done \/ day >= rec.last_time
    THEN [rec EXCEPT !.last_time = day, !.ever_done = TRUE]
    ELSE rec

\* the tasks mapping with the record of chore set to rec
WithRecord(tsk, chore, rec) ==
    [c \in DOMAIN tsk \cup {chore} |-> IF c = chore THEN rec ELSE tsk[c]]

ScheduleCall(name, chore, week, single, period, outcome) ==
    [NoCall EXCEPT !.op = name, !.chore = chore, !.week = week,
                   !.single = single, !.period = period, !.outcome = outcome]

\* a chore record created explicitly, with a known prior last-performed date
add_chore(chore, old_last_time) ==
    /\ Idle
    /\ chore \notin DOMAIN tasks
    /\ tasks' = WithRecord(tasks, chore, NewRecord(old_last_time))
    /\ call' = [ScheduleCall("add_chore", chore, None, FALSE, <<>>, "ok")
                  EXCEPT !.ltb = old_last_time]
    /\ UNCHANGED <<presVars, taskVars, onboarding_date>>

record_chore_on_week(chore, week) ==
    LET r == IF Week_lt(week, Week_week_of_day(onboarding_date).monday)
             THEN "BeforeStartError" ELSE "ok"
        rec == IF chore \in DOMAIN tasks THEN tasks[chore] ELSE NewRecord(None)
        present == {d \in Week_iter(week).days :
                       d >= onboarding_date
                       /\ IsPresent(absences, absences_begin_on, d).retb}
        advanced == IF present # {} THEN Advance(rec, Max(present)) ELSE rec
        recorded == [advanced EXCEPT !.task_history = @ \cup {week}]
    IN /\ Idle
       /\ tasks' = IF r = "ok" THEN WithRecord(tasks, chore, recorded) ELSE tasks
       /\ call' = ScheduleCall("record_chore_on_week", chore, week, FALSE, <<>>, r)
       /\ UNCHANGED <<presVars, taskVars, onboarding_date>>

\* OccupantSchedule.add_absence: the ledger's add_absence, then the re-scan
\* of every chore whose last_time is one of the newly absent days
schedule_add_absence(single, period) ==
    LET r == CheckEach(period, absences_begin_on)
        abs == AddAbsenceBatch(absences, period, absences_begin_on)
    IN /\ Idle
       /\ absences' = abs
       /\ tasks' = IF r # "ok" THEN tasks
                   ELSE [c \in DOMAIN tasks |->
                           IF tasks[c].ever_done /\ tasks[c].last_time \in Range(period)
                           THEN Recompute(tasks[c], abs, absences_begin_on,
                                          onboarding_date)
                           ELSE tasks[c]]
       /\ call' = ScheduleCall("schedule_add_absence", "", None, single, period, r)
       /\ UNCHANGED <<absences_begin_on, presences_before_begin, taskVars,
                      onboarding_date>>

\* OccupantSchedule.add_presence: the ledger's rm_absence, then last_time of
\* every chore that recorded the week of a re-presenced day is raised to the
\* latest such day
schedule_add_presence(single, period) ==
    LET r == CheckEach(period, absences_begin_on)
        abs == RmAbsenceBatch(absences, period, absences_begin_on)
        Latest(rec) == {d \in Range(period) :
                          Week_week_of_day(d).monday \in rec.task_history}
    IN /\ Idle
       /\ absences' = abs
       /\ tasks' = IF r # "ok" THEN tasks
                   ELSE [c \in DOMAIN tasks |->
                           IF Latest(tasks[c]) # {}
                           THEN Advance(tasks[c], Max(Latest(tasks[c])))
                           ELSE tasks[c]]
       /\ call' = ScheduleCall("schedule_add_presence", "", None, single, period, r)
       /\ UNCHANGED <<absences_begin_on, presences_before_begin, taskVars,
                      onboarding_date>>

----------------------------------------------------------------------------
(* Initial states: the ledgers just constructed *)

\* Presence(start=start)
PresenceInit(start) ==
    /\ absences = {}
    /\ absences_begin_on = start
    /\ presences_before_begin = 0

\* TaskHistory()
TaskInit ==
    /\ ever_done = FALSE
    /\ begin_on = DateMin
    /\ n_until_begin = 0
    /\ load_until_begin = 0
    /\ last_time = DateMax
    /\ dates = [d \in {} |-> 0]

\* OccupantSchedule at onboarding: no chore record yet
OccupantInit(start) ==
    /\ onboarding_date = start
    /\ tasks = [c \in {} |-> 0]

\* a Presence starting on any day of the window
Init ==
    /\ \E start \in Window : PresenceInit(start)
    /\ OccupantInit(FirstDay)
    /\ TaskInit
    /\ call = NoCall

\* a TaskHistory, next to a Presence that is left alone
InitTask ==
    /\ PresenceInit(FirstDay)
    /\ OccupantInit(FirstDay)
    /\ TaskInit
    /\ call = NoCall

\* the ledgers left alone, next to the callers of Week
InitWeek ==
    /\ PresenceInit(FirstDay)
    /\ OccupantInit(FirstDay)
    /\ TaskInit
    /\ call = NoCall

\* an occupant onboarded on a Monday, with the Presence created then
InitSchedule ==
    /\ PresenceInit(SchedMonday)
    /\ OccupantInit(SchedMonday)
    /\ TaskInit
    /\ call = NoCall

\* the ledgers left alone, next to the callers of the Task constructors
InitFactory ==
    /\ PresenceInit(FirstDay)
    /\ OccupantInit(FirstDay)
    /\ TaskInit
    /\ call = NoCall

\* the caller takes the result of the call
Return ==
    /\ ~Idle
    /\ call' = [NoCall EXCEPT !.prev = IF call.op = "set_presence_nb_between"
                                           /\ call.outcome = "ok"
                                        THEN call.op ELSE ""]
    /\ UNCHANGED <<presVars, taskVars, schedVars>>

NextPresence ==
    \/ Idle /\ \E d \in Elems : add_absence(TRUE, <<d>>)
    \/ Idle /\ \E p \in Periods : add_absence(FALSE, p)
    \/ Idle /\ \E d \in Elems : rm_absence(TRUE, <<d>>)
    \/ Idle /\ \E p \in Periods : rm_absence(FALSE, p)
    \/ Idle /\ \E d \in Elems : on_period(TRUE, <<d>>)
    \/ Idle /\ \E p \in Periods : on_period(FALSE, p)
    \/ Idle /\ \E d \in Elems : not_on_period(TRUE, <<d>>)
    \/ Idle /\ \E p \in Periods : not_on_period(FALSE, p)
    \/ Idle /\ \E d \in Days : presence_days_nb_until(d)
    \/ Idle /\ \E u \in Days, n \in Counts, s \in Days \cup {None} :
           set_presence_nb_between(u, n, s)
    \/ Return

SpecPresence == Init /\ [][NextPresence]_vars

NextTask ==
    \/ Idle /\ \E d \in TaskElems, l \in Loads \cup {NonFloat} : add_date(TRUE, <<d>>, l)
    \/ Idle /\ \E p \in TaskPeriods, l \in Loads \cup {NonFloat} : add_date(FALSE, p, l)
    \/ Idle /\ \E d \in TaskElems : rm_date_single(d)
    \/ Idle /\ \E p \in TaskPeriods : rm_date_batch(p)
    \/ Idle /\ read_last_time
    \/ Idle /\ read_ever_done
    \/ Idle /\ \E d \in TaskDays : task_days_nb_until(d)
    \/ Idle /\ \E d \in TaskDays : load_until(d)
    \/ Idle /\ \E d \in TaskDays : forward_begin_to(d)
    \/ Idle /\ \E u \in TaskDays, n \in TaskCounts, l \in Loads,
          lt \in TaskWindow \cup {None}, s \in TaskWindow \cup {None} :
           set_situation_on_period(u, n, l, lt, s)
    \/ Return

SpecTask == InitTask /\ [][NextTask]_vars

\* the calls of NextTask whose n_days is not negative
NextTaskCounted ==
    \/ Idle /\ \E d \in TaskElems, l \in Loads \cup {NonFloat} : add_date(TRUE, <<d>>, l)
    \/ Idle /\ \E p \in TaskPeriods, l \in Loads \cup {NonFloat} : add_date(FALSE, p, l)
    \/ Idle /\ \E d \in TaskElems : rm_date_single(d)
    \/ Idle /\ \E p \in TaskPeriods : rm_date_batch(p)
    \/ Idle /\ read_last_time
    \/ Idle /\ read_ever_done
    \/ Idle /\ \E d \in TaskDays : task_days_nb_until(d)
    \/ Idle /\ \E d \in TaskDays : load_until(d)
    \/ Idle /\ \E d \in TaskDays : forward_begin_to(d)
    \/ Idle /\ \E u \in TaskDays, n \in TaskCounts \cap Nat, l \in Loads,
          lt \in TaskWindow \cup {None}, s \in TaskWindow \cup {None} :
           set_situation_on_period(u, n, l, lt, s)
    \/ Return

SpecTaskCounted == InitTask /\ [][NextTaskCounted]_vars

NextWeek ==
    \/ Idle /\ \E d \in WeekInputs : week_of_day(d)
    \/ Return

SpecWeek == InitWeek /\ [][NextWeek]_vars

NextFactory ==
    \/ Idle /\ \E w \in Weights, m \in MinProps : one_shot_fixed_weight(w, m)
    \/ Idle /\ \E w \in Weights, m \in MinProps : one_shot_variable_weight(w, m)
    \/ Idle /\ \E w \in Weights, m \in MinProps, n \in EachDays : regular_fixed_weight(w, m, n)
    \/ Idle /\ \E w \in Weights, m \in MinProps, n \in EachDays : regular_variable_weight(w, m, n)
    \/ Return

SpecFactory == InitFactory /\ [][NextFactory]_vars

NextSchedule ==
    \/ Idle /\ \E c \in Chores, d \in PriorDays : add_chore(c, d)
    \/ Idle /\ \E c \in Chores, w \in WeekInputsSched : record_chore_on_week(c, w)
    \/ Idle /\ \E p \in SchedSingles : schedule_add_absence(TRUE, p)
    \/ Idle /\ \E w \in WeekInputsSched : schedule_add_absence(FALSE, WeekPeriod(w))
    \/ Idle /\ \E p \in SchedSingles : schedule_add_presence(TRUE, p)
    \/ Idle /\ \E w \in WeekInputsSched : schedule_add_presence(FALSE, WeekPeriod(w))
    \/ Return

SpecSchedule == InitSchedule /\ [][NextSchedule]_vars

----------------------------------------------------------------------------
(* Properties of Presence *)

IsCompaction(c) == c.op = "set_presence_nb_between"
DayLevelOps == {"add_absence", "rm_absence", "on_period", "not_on_period", "days_nb_until"}

\* C1: every date stored in the absence set is >= the watermark, whatever
\* sequence of add_absence, rm_absence and set_presence_nb_between calls
\* (accepted or rejected) has been made.
C1_AbsencesAfterWatermark == \A a \in absences : a >= absences_begin_on

\* an accepted compaction that kept the absence of the new watermark day
C1_Witness ==
    /\ IsCompaction(call) /\ call.outcome = "ok"
    /\ absences_begin_on \in absences

\* C2 (as stated): right after an accepted compaction until D, days_nb_until(D)
\* returns what it returned before the compaction.
C2_Original ==
    [][(IsCompaction(call') /\ call'.outcome = "ok" /\ call'.start = None)
       => /\ ask_or_set_absence_check(call'.until, absences_begin_on') = "ok"
          /\ PresenceDaysNb(absences', absences_begin_on', presences_before_begin',
                            call'.until)
             = PresenceDaysNb(absences, absences_begin_on, presences_before_begin,
                              call'.until)]_vars

\* C2 (amended): right after an accepted compaction until D with count n,
\* days_nb_until(d) raises BeforeAbsenceBeginError for every d <= D; the count
\* until D survives only as the aggregate n, so that on the first day still
\* tracked, D + 1, days_nb_until returns n plus one when that day is present.
C2_CompactionThenCount ==
    [][(IsCompaction(call') /\ call'.outcome = "ok" /\ call'.start = None)
       => /\ \A d \in Days : d <= call'.until
                => ask_or_set_absence_check(d, absences_begin_on')
                     = "BeforeAbsenceBeginError"
          /\ ask_or_set_absence_check(call'.until + 1, absences_begin_on') = "ok"
          /\ PresenceDaysNb(absences', absences_begin_on', presences_before_begin',
                            call'.until + 1)
             = call'.nb + (IF call'.until + 1 \in absences THEN 0 ELSE 1)]_vars

\* an accepted compaction without start whose count is not the one
\* days_nb_until(until) gave before: the watermark day is absent, the count
\* stored is non-zero
C2_Witness ==
    /\ IsCompaction(call) /\ call.outcome = "ok" /\ call.start = None
    /\ call.until + 1 \in absences
    /\ call.nb # 0

\* the elements of a period that precede position i are all dates
DatesBefore(period, i) == \A j \in 1..(i - 1) : isinstance_date(period[j])

\* C4: add_absence, rm_absence, on_period, not_on_period and days_nb_until
\* given a day before the watermark, alone or inside a collection of days,
\* raise BeforeAbsenceBeginError and leave absences, watermark and count
\* unchanged.
C4_DayBeforeWatermarkRejected ==
    [][(/\ call'.op \in DayLevelOps
        /\ \E i \in DOMAIN call'.period :
              /\ isinstance_date(call'.period[i])
              /\ call'.period[i] < absences_begin_on
              /\ DatesBefore(call'.period, i))
       => (call'.outcome = "BeforeAbsenceBeginError" /\ UNCHANGED presVars)]_vars

\* not_on_period rejected a collection whose first day is a recorded absence
\* and whose second day lies before the watermark
C4_Witness ==
    /\ call.op = "not_on_period" /\ ~call.single
    /\ Len(call.period) = 2
    /\ call.period[1] \in absences
    /\ call.period[2] # NonDate /\ call.period[2] < absences_begin_on
    /\ call.outcome = "BeforeAbsenceBeginError"

InvalidDay(x, begin) == ~isinstance_date(x) \/ x < begin

\* C5: add_absence or rm_absence of a collection holding an invalid element
\* (a non-date or a day before the watermark), at any position, raises and
\* leaves the absence set as it was.
C5_BatchAtomicity ==
    [][(/\ call'.op \in {"add_absence", "rm_absence"} /\ ~call'.single
        /\ \E i \in DOMAIN call'.period : InvalidDay(call'.period[i], absences_begin_on))
       => (call'.outcome # "ok" /\ absences' = absences)]_vars

\* add_absence rejected a collection whose first day was valid and not yet
\* absent, and whose last element was invalid
C5_Witness ==
    /\ call.op = "add_absence" /\ ~call.single
    /\ Len(call.period) = 2
    /\ ~InvalidDay(call.period[1], absences_begin_on)
    /\ call.period[1] \notin absences
    /\ InvalidDay(call.period[2], absences_begin_on)
    /\ call.outcome # "ok"

\* the caller has just taken the result of an accepted compaction; its until,
\* D1, is the day before the watermark
AfterCompaction == Idle /\ call.prev = "set_presence_nb_between"

\* C7 (as stated): right after an accepted compaction until D1, a compaction
\* starting on D1 + 2 days raises AbsenceTrackingAfterBeginError and changes
\* nothing, whatever its until.
C7_Original ==
    [][(/\ AfterCompaction
        /\ IsCompaction(call') /\ call'.start = (absences_begin_on - ONE_DAY) + 2)
       => (call'.outcome = "AbsenceTrackingAfterBeginError" /\ UNCHANGED presVars)]_vars

\* C7 (amended): such a call changes nothing and raises
\* AbsenceTrackingAfterBeginError when D2 >= D1 + 2 days; when D2 is earlier
\* (until before the watermark, or before start) it raises a plain ValueError.
C7_GapRejected ==
    [][(/\ AfterCompaction
        /\ IsCompaction(call') /\ call'.start = (absences_begin_on - ONE_DAY) + 2)
       => /\ UNCHANGED presVars
          /\ call'.outcome = IF call'.until >= call'.start
                             THEN "AbsenceTrackingAfterBeginError"
                             ELSE "ValueError"]_vars

\* a compaction starting one day after the watermark and ending later was
\* rejected with the gap error, on a ledger holding an aggregate and an absence
C7_Witness ==
    /\ IsCompaction(call)
    /\ call.outcome = "AbsenceTrackingAfterBeginError"
    /\ call.start = absences_begin_on + 1
    /\ call.until > call.start
    /\ presences_before_begin # 0
    /\ absences # {}

\* C8 (as stated): without start, a compaction is accepted for every
\* until >= watermark - 1 day and rejected, state unchanged, below that.
C8_Original ==
    [][(IsCompaction(call') /\ call'.start = None)
       => IF call'.until >= absences_begin_on - ONE_DAY
          THEN call'.outcome = "ok"
          ELSE (call'.outcome # "ok" /\ UNCHANGED presVars)]_vars

\* C8 (amended): without start, a compaction is accepted for every until
\* from the watermark on (date.max excepted, where until + 1 day overflows),
\* and rejected, state unchanged, for every until before the watermark.
C8_CompactionFloor ==
    [][(IsCompaction(call') /\ call'.start = None)
       => IF call'.until >= absences_begin_on
          THEN (call'.until < DateMax => call'.outcome = "ok")
          ELSE (call'.outcome = "ValueError" /\ UNCHANGED presVars)]_vars

\* a compaction until the day before the watermark was rejected
C8_Witness ==
    /\ IsCompaction(call) /\ call.start = None
    /\ call.until = absences_begin_on - ONE_DAY
    /\ call.outcome = "ValueError"
    /\ absences # {}

\* C9: an accepted compaction sets the watermark to until + 1 day, drops
\* exactly the absences <= until, and replaces the count by pres_nb when
\* start is None, increases it by pres_nb when a start was given.
C9_CompactionEffect ==
    [][(IsCompaction(call') /\ call'.outcome = "ok")
       => /\ absences_begin_on' = call'.until + ONE_DAY
          /\ absences' = {a \in absences : a > call'.until}
          /\ presences_before_begin' =
                IF call'.start = None THEN call'.nb
                ELSE presences_before_begin + call'.nb]_vars

\* an accepted compaction with a start that added to an existing count
\* and kept an absence
C9_Witness ==
    /\ IsCompaction(call) /\ call.outcome = "ok"
    /\ call.start # None /\ call.nb # 0
    /\ presences_before_begin # call.nb
    /\ absences # {}

\* C10 (as stated): a compaction of a well-formed period (start <= until,
\* until >= watermark) whose start lies before the watermark, on a ledger
\* whose count is non-zero, raises BeforeAbsenceBeginError and changes nothing.
C10_Original ==
    [][(/\ IsCompaction(call') /\ call'.start # None
        /\ call'.start < absences_begin_on /\ presences_before_begin # 0
        /\ call'.start <= call'.until /\ call'.until >= absences_begin_on)
       => (call'.outcome = "BeforeAbsenceBeginError" /\ UNCHANGED presVars)]_vars

\* C11 (as stated): the count of presences before the watermark is never
\* negative, whatever integer pres_nb the callers of set_presence_nb_between
\* pass.
C11_Original == presences_before_begin >= 0

\* every element of the period is a date on or after the watermark
AllTracked(period, begin) ==
    \A i \in DOMAIN period : isinstance_date(period[i]) /\ period[i] >= begin

\* C12: a day d >= watermark that add_absence has marked absent is present
\* again as soon as rm_absence(d) has returned: on_period(d) then raises
\* nothing and returns True.
C12_AbsenceRoundTrip ==
    [][(/\ call'.op = "rm_absence"
        /\ AllTracked(call'.period, absences_begin_on))
       => \A i \in DOMAIN call'.period :
             call'.period[i] \in absences
             => /\ call'.outcome = "ok"
                /\ ask_or_set_absence_check(call'.period[i], absences_begin_on') = "ok"
                /\ OnPeriodValue(absences', <<call'.period[i]>>)]_vars

\* rm_absence of a single day has returned while another day is still absent
C12_Witness ==
    /\ call.op = "rm_absence" /\ call.single /\ call.outcome = "ok"
    /\ call.period[1] >= absences_begin_on
    /\ call.period[1] \notin absences
    /\ absences # {}

\* C13: rm_absence of days >= watermark none of which is absent, given alone
\* or as a collection, raises nothing and leaves absences, watermark and count
\* unchanged; a second identical call leaves the state the first one left.
C13_RmAbsenceIdempotent ==
    [][(/\ call'.op = "rm_absence"
        /\ AllTracked(call'.period, absences_begin_on))
       => /\ call'.outcome = "ok"
          /\ (\A i \in DOMAIN call'.period : call'.period[i] \notin absences)
                => UNCHANGED presVars
          /\ CheckEach(call'.period, absences_begin_on') = "ok"
          /\ RmAbsenceBatch(absences', call'.period, absences_begin_on') = absences']_vars

\* rm_absence of a collection of two distinct days, neither absent, has
\* returned on a ledger holding an absence and an aggregate
C13_Witness ==
    /\ call.op = "rm_absence" /\ ~call.single /\ call.outcome = "ok"
    /\ Len(call.period) = 2 /\ call.period[1] # call.period[2]
    /\ AllTracked(call.period, absences_begin_on)
    /\ absences # {}
    /\ presences_before_begin # 0

\* C14: for a collection of days all >= watermark, on_period returns True
\* exactly when none of the days is absent and not_on_period returns True
\* exactly when all of them are absent.
C14_CollectionQueries ==
    [][(/\ call'.op \in {"on_period", "not_on_period"} /\ ~call'.single
        /\ AllTracked(call'.period, absences_begin_on))
       => /\ call'.outcome = "ok"
          /\ call'.op = "on_period"
                => (call'.retb <=> Range(call'.period) \cap absences = {})
          /\ call'.op = "not_on_period"
                => (call'.retb <=> Range(call'.period) \subseteq absences)]_vars

\* not_on_period returned False for a collection of one absent and one
\* present day
C14_Witness ==
    /\ call.op = "not_on_period" /\ ~call.single /\ call.outcome = "ok"
    /\ Len(call.period) = 2
    /\ call.period[1] \in absences
    /\ call.period[2] # NonDate /\ call.period[2] >= absences_begin_on
    /\ call.period[2] \notin absences
    /\ ~call.retb

\* the number of days of [begin, until] that are not absences
PresentDays(abs, begin, until) ==
    (until - begin) + 1 - Cardinality({a \in abs : begin <= a /\ a <= until})

\* the compaction c states the count the ledger already gives: without start
\* days_nb_until(until), with start = watermark the non-absent days of
\* [watermark, until]
FaithfulCompaction(c) ==
    /\ IsCompaction(c) /\ c.outcome = "ok"
    /\ \/ /\ c.start = None
          /\ c.nb = PresenceDaysNb(absences, absences_begin_on,
                                   presences_before_begin, c.until)
       \/ /\ c.start = absences_begin_on
          /\ c.nb = PresentDays(absences, absences_begin_on, c.until)

\* C31: a faithful compaction until D leaves, for every day d > D, the
\* values of days_nb_until(d), on_period(d) and not_on_period(d) as they
\* were before it, and none of the three raises before or after.
C31_CountPreserved ==
    [][FaithfulCompaction(call')
       => \A d \in Days :
            d > call'.until
            => /\ ask_or_set_absence_check(d, absences_begin_on) = "ok"
               /\ ask_or_set_absence_check(d, absences_begin_on') = "ok"
               /\ PresenceDaysNb(absences', absences_begin_on',
                                 presences_before_begin', d)
                  = PresenceDaysNb(absences, absences_begin_on,
                                   presences_before_begin, d)
               /\ OnPeriodValue(absences', <<d>>) = OnPeriodValue(absences, <<d>>)
               /\ NotOnPeriodValue(absences', <<d>>)
                  = NotOnPeriodValue(absences, <<d>>)]_vars

\* a compaction without start has been accepted with the count of every day
\* from the first day of the window through until, on a ledger that keeps an
\* absence and a present day after until
C31_Witness ==
    /\ IsCompaction(call) /\ call.outcome = "ok"
    /\ call.start = None
    /\ call.until > FirstDay
    /\ call.nb = (call.until - FirstDay) + 1
    /\ presences_before_begin = call.nb
    /\ absences_begin_on = call.until + ONE_DAY
    /\ \E a \in absences : a > call.until
    /\ \E d \in Window : d > call.until /\ d \notin absences

\* the days a count can be asked for: the days a caller passes, and the day
\* after the watermark
CountDays == Days \cup {absences_begin_on + ONE_DAY}

\* C32: in every reachable state, for every day d after the watermark,
\* days_nb_until(d) exceeds days_nb_until(d - 1 day) by 1 when on_period(d)
\* is True and by 0 when it is False; and days_nb_until(watermark) is the
\* count before the watermark, plus 1 when the watermark day is present.
C32_RunningCount ==
    /\ \A d \in CountDays :
          (d > absences_begin_on /\ d <= DateMax)
          => PresenceDaysNb(absences, absences_begin_on, presences_before_begin, d)
             - PresenceDaysNb(absences, absences_begin_on, presences_before_begin,
                              d - ONE_DAY)
             = (IF OnPeriodValue(absences, <<d>>) THEN 1 ELSE 0)
    /\ PresenceDaysNb(absences, absences_begin_on, presences_before_begin,
                      absences_begin_on)
       = presences_before_begin
         + (IF OnPeriodValue(absences, <<absences_begin_on>>) THEN 1 ELSE 0)

\* a compacted ledger with a count before the watermark, whose watermark day
\* is absent and is followed by a present day and by a later absence
C32_Witness ==
    /\ Idle
    /\ absences_begin_on > FirstDay
    /\ presences_before_begin > 0
    /\ absences_begin_on \in absences
    /\ absences_begin_on + ONE_DAY \notin absences
    /\ \E a \in absences : a > absences_begin_on + ONE_DAY

\* C33: the watermark never decreases; every accepted
\* set_presence_nb_between moves it strictly later, and add_absence,
\* rm_absence, the queries and every rejected call leave it where it was.
C33_WatermarkMonotone ==
    [][/\ absences_begin_on' >= absences_begin_on
       /\ IF IsCompaction(call') /\ call'.outcome = "ok"
          THEN absences_begin_on' > absences_begin_on
          ELSE absences_begin_on' = absences_begin_on]_vars

\* a compaction of the watermark day alone (start = until, which the checks
\* accept only at the watermark) has been accepted: the watermark has moved
\* by one day
C33_Witness ==
    /\ IsCompaction(call) /\ call.outcome = "ok"
    /\ call.start # None /\ call.start = call.until
    /\ call.start > FirstDay + ONE_DAY
    /\ absences_begin_on = call.until + ONE_DAY

----------------------------------------------------------------------------
(* Properties of TaskHistory *)

PresenceOps == DayLevelOps \cup {"set_presence_nb_between"}
TaskOps == {"add_date", "rm_date", "task_days_nb_until", "load_until",
            "set_situation_on_period"}

\* the call c, whose arguments have the declared types, was given a date
\* strictly before begin: as its day, inside its period, as its until or as
\* its start
GivenDateBefore(c, begin) ==
    /\ \A i \in DOMAIN c.period : isinstance_date(c.period[i])
    /\ c.load # NonFloat
    /\ \/ \E i \in DOMAIN c.period : c.period[i] < begin
       \/ c.until # None /\ c.until < begin
       \/ c.start # None /\ c.start < begin

\* C3 (as stated): no query and no mutation of either ledger, the count
\* queries and the compactions included, succeeds when given a date strictly
\* before the ledger's watermark; each raises the ledger's "before" error.
C3_Original ==
    [][/\ (call'.op \in PresenceOps /\ GivenDateBefore(call', absences_begin_on))
          => call'.outcome = "BeforeAbsenceBeginError"
       /\ (call'.op \in TaskOps /\ GivenDateBefore(call', begin_on))
          => call'.outcome = "BeforeBeginError"]_vars

\* C6 (as stated): rm_date of a day >= begin_on that is not recorded, alone
\* or inside a collection of days, raises and leaves the whole history as it
\* was.
C6_Original ==
    [][(/\ call'.op = "rm_date"
        /\ \E i \in DOMAIN call'.period :
              /\ isinstance_date(call'.period[i])
              /\ call'.period[i] >= begin_on
              /\ call'.period[i] \notin DOMAIN dates)
       => (call'.outcome # "ok" /\ UNCHANGED taskVars)]_vars

\* C15: every recorded date is >= begin_on, whatever sequence of add_date,
\* rm_date and set_situation_on_period calls (accepted or rejected) has been
\* made.
C15_DatesAfterBegin == \A d \in DOMAIN dates : d >= begin_on

\* a compacted history that records the very day its recording begins on
C15_Witness ==
    /\ begin_on > DateMin
    /\ begin_on \in DOMAIN dates

\* the history holds no aggregate for the days before begin_on
NoAggregate == n_until_begin = 0 /\ load_until_begin = 0

\* C16 (as stated): last_time raises NeverDoneError exactly when ever_done is
\* false and returns the stored date otherwise; it raises on a fresh history,
\* and again once the only recorded date of a history without aggregate has
\* been removed.
C16_Original ==
    [][/\ call'.op = "last_time"
          => /\ call'.outcome = (IF ever_done THEN "ok" ELSE "NeverDoneError")
             /\ ever_done => (call'.retn = last_time /\ isinstance_date(call'.retn))
       /\ (/\ call'.op = "rm_date" /\ call'.outcome = "ok"
           /\ NoAggregate
           /\ Cardinality(DOMAIN dates) = 1 /\ DOMAIN dates' = {})
          => ~ever_done']_vars

\* C17 (as stated): forward_begin_to(x) with x >= begin_on raises begin_on to
\* x and drops the recorded dates strictly before x; with x < begin_on it is
\* rejected and the history is left unchanged.
C17_Original ==
    [][call'.op = "forward_begin_to"
       => IF call'.period[1] >= begin_on
          THEN /\ call'.outcome = "ok"
               /\ begin_on' = call'.period[1]
               /\ dates' = Without(dates, {d \in DOMAIN dates : d < call'.period[1]})
          ELSE call'.outcome # "ok" /\ UNCHANGED taskVars]_vars

\* C18: set_situation_on_period on a never-done history with n_days > 0 and
\* no last time, and any set_situation_on_period whose start is after its
\* until, raises ValueError and leaves every field of the history unchanged.
C18_SituationRejected ==
    [][(/\ call'.op = "set_situation_on_period"
        /\ \/ ~ever_done /\ call'.nb > 0 /\ call'.ltb = None
           \/ call'.start # None /\ call'.start > call'.until)
       => (call'.outcome = "ValueError" /\ UNCHANGED taskVars)]_vars

\* a count without last time was refused on a never-done history, for a
\* period that was otherwise well formed
C18_Witness ==
    /\ call.op = "set_situation_on_period" /\ call.outcome = "ValueError"
    /\ ~ever_done /\ call.nb > 0 /\ call.ltb = None
    /\ call.until >= begin_on
    /\ call.start # None /\ call.start = begin_on
    /\ begin_on > DateMin

\* the removal asked of rm_date takes last_time and every recorded date away
\* from a history with a count before begin_on
UnsafeRemoval ==
    /\ call'.op = "rm_date"
    /\ \A i \in DOMAIN call'.period : isinstance_date(call'.period[i])
    /\ last_time \in Range(call'.period)
    /\ n_until_begin > 0
    /\ DOMAIN dates \subseteq Range(call'.period)

\* the last time of a history with a count before begin_on can be told
Retrievable ==
    n_until_begin > 0
    => /\ ever_done
       /\ (last_time \in DOMAIN dates \/ last_time < begin_on)

\* what successful calls with non-negative counts keep true of a history
SoundHistory ==
    /\ n_until_begin >= 0
    /\ ever_done <=> (DOMAIN dates # {} \/ n_until_begin > 0)
    /\ ever_done => IF DOMAIN dates # {} THEN last_time = Max(DOMAIN dates)
                    ELSE last_time < begin_on
    /\ Retrievable

\* a call that returned normally, with a non-negative n_days if it has one
SuccessfulCall ==
    /\ call'.outcome = "ok"
    /\ call'.op = "set_situation_on_period" => call'.nb >= 0

\* C23 (as stated): rm_date raises the unsafe-removal ValueError, leaving the
\* history unchanged, whenever the removal includes last_time, n_until_begin
\* is positive and no recorded date would remain; and successful calls with
\* non-negative n_days keep the last time of a history with a positive
\* n_until_begin retrievable.
C23_Original ==
    /\ SoundHistory
    /\ [][/\ UnsafeRemoval => (call'.outcome = "ValueError" /\ UNCHANGED taskVars)
          /\ (SoundHistory /\ SuccessfulCall) => SoundHistory']_vars

\* C23 (amended): such a removal is always rejected and leaves the history
\* unchanged: with BeforeBeginError when one of its days is before begin_on,
\* with the unsafe-removal ValueError otherwise; and successful calls with
\* non-negative n_days keep the last time of a history with a positive
\* n_until_begin retrievable.
C23_UnsafeRemovalRejected ==
    /\ SoundHistory
    /\ [][/\ UnsafeRemoval
             => /\ call'.outcome =
                     (IF \E i \in DOMAIN call'.period : call'.period[i] < begin_on
                      THEN "BeforeBeginError" ELSE "ValueError")
                /\ UNCHANGED taskVars
          /\ (SoundHistory /\ SuccessfulCall) => SoundHistory']_vars

\* the removal of the only recorded date, the last time of a history with a
\* count before begin_on, has been refused
C23_Witness ==
    /\ call.op = "rm_date" /\ call.outcome = "ValueError"
    /\ n_until_begin > 0 /\ ever_done
    /\ DOMAIN dates = {last_time}
    /\ last_time \in Range(call.period)
    /\ SoundHistory

\* C24: no add_date call, accepted or rejected, of a single day or of a
\* period, removes a recorded day or changes its load; a recorded day
\* disappears only through rm_date or set_situation_on_period, and while it
\* stays recorded its load stays the same.
C24_NoImplicitUpdate ==
    [][/\ call'.op = "add_date"
          => \A d \in DOMAIN dates : d \in DOMAIN dates' /\ dates'[d] = dates[d]
       /\ \A d \in DOMAIN dates :
             IF d \in DOMAIN dates' THEN dates'[d] = dates[d]
             ELSE call'.op \in {"rm_date", "set_situation_on_period"}]_vars

\* add_date of a two-day period has returned, one of its days still holding
\* the whole load it was recorded with before, not the share of the period
C24_Witness ==
    /\ call.op = "add_date" /\ call.outcome = "ok"
    /\ ~call.single /\ Len(call.period) = 2
    /\ call.load = LoadScale
    /\ \E d, e \in Range(call.period) :
          /\ dates[d] = LoadScale
          /\ dates[e] = LoadScale \div 2

\* C25 (as stated): once add_date has returned normally, for a single day or
\* for a collection of two or more days, the same call repeated raises
\* nothing and leaves the recorded dates, their loads, last_time and
\* ever_done as they are.
C25_Original ==
    (/\ call.op = "add_date" /\ call.outcome = "ok"
     /\ call.single \/ Len(call.period) >= 2)
    => /\ (IF call.single
           THEN add_date_check(call.period[1], call.load, begin_on, dates)
           ELSE AddCheckEach(call.period, call.load, begin_on, dates)) = "ok"
       /\ dates = (IF call.single
                   THEN SetDefault(dates, call.period[1], call.load)
                   ELSE SetDefaultEach(dates, call.period,
                                       call.load \div Len(call.period)))
       /\ ever_done
       /\ last_time = AddLastTime(ever_done, last_time, Max(Range(call.period)))

\* C26 (as stated): set_situation_on_period with a start strictly before
\* begin_on raises BeforeBeginError and changes nothing whenever the history
\* holds an aggregate for before begin_on, a count or a load other than 0
\* (here for the calls that would be accepted without their start).
C26_Original ==
    [][(/\ call'.op = "set_situation_on_period"
        /\ call'.start # None /\ call'.start < begin_on
        /\ ~NoAggregate
        /\ set_situation_check(call'.until, call'.nb, call'.ltb, None, begin_on,
                               ever_done, n_until_begin, load_until_begin) = "ok")
       => (call'.outcome = "BeforeBeginError" /\ UNCHANGED taskVars)]_vars

\* C27 (as stated): every add_date call and every set_situation_on_period
\* call that raises leaves the dates and their loads, last_time, ever_done,
\* begin_on, n_until_begin and load_until_begin as they were.
C27_Original ==
    [][(/\ call'.op \in {"add_date", "set_situation_on_period"}
        /\ call'.outcome # "ok")
       => UNCHANGED taskVars]_vars

\* C28 (as stated): in every state reached through add_date, rm_date and
\* set_situation_on_period calls with n_days >= 0, accepted or rejected,
\* ever_done is true exactly when a date is recorded or n_until_begin > 0.
C28_Original == ever_done <=> (DOMAIN dates # {} \/ n_until_begin > 0)

\* C29 (as stated): in every reachable state where ever_done is true,
\* last_time is the latest recorded date if a date is recorded, and a date
\* strictly before begin_on if none is.
C29_Original ==
    ever_done => IF DOMAIN dates # {} THEN last_time = Max(DOMAIN dates)
                 ELSE last_time < begin_on

\* C30: add_date returning normally leaves a done history done, with the
\* later of its last_time and the added days as last_time; rm_date returning
\* normally never gives a later last_time; and an add_date or rm_date call
\* that raises leaves last_time and ever_done as they were.
C30_LastTimeDirection ==
    [][/\ (/\ call'.op = "add_date" /\ call'.outcome = "ok"
           /\ call'.period # <<>> /\ ever_done)
          => /\ ever_done'
             /\ last_time' = Max({last_time} \cup Range(call'.period))
       /\ (call'.op = "rm_date" /\ call'.outcome = "ok" /\ ever_done')
          => (ever_done /\ last_time' <= last_time)
       /\ (call'.op \in {"add_date", "rm_date"} /\ call'.outcome # "ok")
          => UNCHANGED <<last_time, ever_done>>]_vars

\* add_date has recorded a day earlier than the last time of the history
C30_Witness ==
    /\ call.op = "add_date" /\ call.outcome = "ok"
    /\ call.period # <<>>
    /\ Range(call.period) \subseteq DOMAIN dates
    /\ ever_done
    /\ last_time > Max(Range(call.period))

----------------------------------------------------------------------------
(* Properties of Week *)

\* C19 (as stated): for every day d, Week.week_of_day(d) contains d, its
\* monday is the Monday on or before d, and its sunday is monday + 6 days.
C19_Original ==
    (call.op = "week_of_day" /\ isinstance_date(call.period[1]))
    => /\ call.outcome = "ok"
       /\ Week_contains(call.retn, call.period[1]) = [outcome |-> "ok", retb |-> TRUE]
       /\ Weekday(call.retn) = 0
       /\ call.retn <= call.period[1] /\ call.period[1] - call.retn < 7
       /\ Week_sunday(call.retn) = [outcome |-> "ok", sunday |-> call.retn + 6]

----------------------------------------------------------------------------
(* Properties of OccupantSchedule *)

\* the days the callers of the schedule reach: from the week before
\* onboarding to the last day the last recorded week yields
SchedHorizon == (SchedMonday - 7) .. (Max(SchedWeeks) + 6)

\* the days from onboarding on, on which the occupant is present
PresentSinceOnboarding ==
    {d \in SchedHorizon : /\ d >= onboarding_date
                          /\ IsPresent(absences, absences_begin_on, d).retb}

\* "a day whose week is in the chore's history", read as: a week of the
\* history contains the day (Week.__contains__)
LiveEvidence(rec) ==
    {d \in PresentSinceOnboarding :
        \E w \in rec.task_history : Week_contains(w, d).retb}

\* the same, read as: the week of the day (Week.week_of_day) is in the
\* history
LiveEvidenceOfDay(rec) ==
    {d \in PresentSinceOnboarding :
        Week_week_of_day(d).monday \in rec.task_history}

\* the last_time the claim derives from a set of evidence days
Derived(rec, evidence) ==
    IF evidence # {} THEN Max(evidence) ELSE rec.old_last_time

\* C20 (as stated): after any sequence of record_chore_on_week, add_absence
\* and add_presence, every chore record with ever_done true has as last_time
\* the latest day from onboarding on on which the occupant is present and
\* whose week is in the chore's history, or, when there is no such day, its
\* old_last_time snapshot.  The statement is taken to hold of a record when
\* it holds under either reading of "whose week is in the history".
C20_Original ==
    \A c \in DOMAIN tasks :
        tasks[c].ever_done
        => \/ tasks[c].last_time = Derived(tasks[c], LiveEvidence(tasks[c]))
           \/ tasks[c].last_time = Derived(tasks[c], LiveEvidenceOfDay(tasks[c]))

\* C21 (as stated): record_chore_on_week and add_presence never decrease the
\* last_time of a chore record (a done record stays done, on the same or a
\* later day); add_absence never increases it, and never takes it below the
\* old_last_time snapshot of the record (a record with a snapshot stays done).
C21_Original ==
    [][\A c \in DOMAIN tasks :
         /\ (call'.op \in {"record_chore_on_week", "schedule_add_presence"}
              /\ tasks[c].ever_done)
            => /\ tasks'[c].ever_done
               /\ tasks'[c].last_time >= tasks[c].last_time
         /\ call'.op = "schedule_add_absence"
            => /\ tasks'[c].ever_done
                    => (tasks[c].ever_done
                        /\ tasks'[c].last_time <= tasks[c].last_time)
               /\ (tasks[c].ever_done /\ tasks[c].old_ever_done)
                    => /\ tasks'[c].ever_done
                       /\ tasks'[c].last_time >= tasks[c].old_last_time]_vars

----------------------------------------------------------------------------
(* Properties of Task *)

\* C22 (as stated): Task.regular_variable_weight returns a Task, without
\* raising, for every float weight_per_coloc.
C22_Original == call.op = "regular_variable_weight" => call.outcome = "ok"

====
